---- MODULE Spec2Model ----
(***************************************************************************)
(* Model of the request dispatcher (FastHttpClient.executeRequest and the  *)
(* helpers it calls) and of the asynchronous-update poller                 *)
(* (FastHttpClient.WaitForPendingUpdate) of the fasthttp based meilisearch *)
(* client.                                                                 *)
(*                                                                         *)
(* One call of executeRequest is followed step by step.  sendRequest       *)
(* acquires a fasthttp response object from the pool shared by all         *)
(* goroutines, lets the Transport fill it, and its deferred                *)
(* fasthttp.ReleaseResponse resets the object and puts it back into the    *)
(* pool when sendRequest returns.  executeRequest keeps the pointer and    *)
(* reads the object afterwards, so what it reads is the content of the     *)
(* object at the moment of the read: the reset content, or whatever a      *)
(* concurrent call that re-acquired the object has received into it.       *)
(* Of the calls of the other goroutines the model follows the steps of     *)
(* sendRequest on that one object: a call that obtains another object      *)
(* touches nothing the call under observation can read.                    *)
(***************************************************************************)
EXTENDS Integers, Sequences, FiniteSets, TLC

(***************************************************************************)
(* Bounds                                                                  *)
(***************************************************************************)
NOthers == 1
MaxPolls == 3

Others == 1..NOthers
NoOther == 0

(***************************************************************************)
(* HTTP status codes used by the facades and by the server                 *)
(***************************************************************************)
StatusOK == 200
StatusAccepted == 202
StatusNoContent == 204
StatusCreated == 201
StatusNotFound == 404

ServerStatusCodes == {StatusOK, StatusAccepted, StatusNoContent, StatusNotFound}

(***************************************************************************)
(* Response bodies the server can send                                     *)
(***************************************************************************)
EmptyBody == ""
TextBody == "Index not found"
ObjBody == "{}"
EnqueuedBody == "{status:enqueued}"
ProcessedBody == "{status:processed}"
FailedBody == "{status:failed}"

ArrayBody == "[a]"
IndexBody == "{uid:movies}"
ServerBodies ==
    {EmptyBody, TextBody, ObjBody, EnqueuedBody, ProcessedBody, FailedBody,
     ArrayBody}

(***************************************************************************)
(* UpdateStatus                                                            *)
(***************************************************************************)
UpdateStatusUnknown == "unknown"
UpdateStatusEnqueued == "enqueued"
UpdateStatusProcessed == "processed"
UpdateStatusFailed == "failed"
NoStatus == ""

(***************************************************************************)
(* Error kinds of the structured error                                     *)
(***************************************************************************)
ErrCodeUnknown == "ErrCodeUnknown"
ErrCodeMarshalRequest == "ErrCodeMarshalRequest"
ErrCodeRequestExecution == "ErrCodeRequestExecution"
ErrCodeResponseStatusCode == "ErrCodeResponseStatusCode"
ErrCodeResponseUnmarshalBody == "ErrCodeResponseUnmarshalBody"
UrlParseError == "unable to parse url"

(***************************************************************************)
(* Request descriptors built by the facades                                *)
(***************************************************************************)
NilValue == "nil"
GoodDocuments == "documents"
BadDocuments == "failing marshaler"

IndexUIDs == {"movies", "%zz"}

UpdatesGet(indexUID) ==
    [endpoint |-> "/indexes/" \o indexUID \o "/updates/1",
     method |-> "GET",
     withRequest |-> NilValue,
     withResponse |-> "Update",
     acceptedNil |-> FALSE,
     acceptedStatusCodes |-> <<StatusOK>>,
     functionName |-> "Get",
     apiName |-> "Updates"]

IndexesDelete(uid) ==
    [endpoint |-> "/indexes/" \o uid,
     method |-> "DELETE",
     withRequest |-> NilValue,
     withResponse |-> NilValue,
     acceptedNil |-> FALSE,
     acceptedStatusCodes |-> <<StatusNoContent>>,
     functionName |-> "Delete",
     apiName |-> "Indexes"]

DocumentsAddOrReplace(indexUID, documentsPtr) ==
    [endpoint |-> "/indexes/" \o indexUID \o "/documents",
     method |-> "POST",
     withRequest |-> documentsPtr,
     withResponse |-> "AsyncUpdateID",
     acceptedNil |-> FALSE,
     acceptedStatusCodes |-> <<StatusAccepted>>,
     functionName |-> "AddOrReplace",
     apiName |-> "Documents"]

SettingsGetDistinctAttribute(indexUID) ==
    [endpoint |-> "/indexes/" \o indexUID \o "/settings/distinct-attribute",
     method |-> "GET",
     withRequest |-> NilValue,
     withResponse |-> "Str",
     acceptedNil |-> FALSE,
     acceptedStatusCodes |-> <<StatusOK>>,
     functionName |-> "GetDistinctAttribute",
     apiName |-> "Settings"]

\* fastClientIndexes.Get: resp = &Index{} is the target
IndexesGet(uid) ==
    [endpoint |-> "/indexes/" \o uid,
     method |-> "GET",
     withRequest |-> NilValue,
     withResponse |-> "Index",
     acceptedNil |-> FALSE,
     acceptedStatusCodes |-> <<StatusOK>>,
     functionName |-> "Get",
     apiName |-> "Indexes"]

\* fastClientIndexes.Create: the named result resp, a nil
\* *CreateIndexResponse, is the target; inside the json.Unmarshaler
\* interface it is not equal to nil
NilCreateIndexResponse == "(*CreateIndexResponse)(nil)"

CreateIndexRequest == "index request"

IndexesCreate(request) ==
    [endpoint |-> "/indexes",
     method |-> "POST",
     withRequest |-> request,
     withResponse |-> NilCreateIndexResponse,
     acceptedNil |-> FALSE,
     acceptedStatusCodes |-> <<StatusCreated>>,
     functionName |-> "Create",
     apiName |-> "Indexes"]

\* fastClientDocuments.Get: the caller brings the target
DocumentsGet(indexUID, identifier, documentPtr) ==
    [endpoint |-> "/indexes/" \o indexUID \o "/documents/" \o identifier,
     method |-> "GET",
     withRequest |-> NilValue,
     withResponse |-> documentPtr,
     acceptedNil |-> FALSE,
     acceptedStatusCodes |-> <<StatusOK>>,
     functionName |-> "Get",
     apiName |-> "Documents"]

\* an internalRawRequest whose acceptedStatusCodes is nil (isNil) or a
\* slice without elements
NoAcceptedStatusCodes(d, isNil) ==
    [d EXCEPT !.acceptedNil = isNil, !.acceptedStatusCodes = <<>>]

Descriptors ==
    {UpdatesGet("movies"), IndexesDelete("movies"), IndexesDelete("%zz"),
     DocumentsAddOrReplace("movies", GoodDocuments),
     DocumentsAddOrReplace("movies", BadDocuments),
     DocumentsAddOrReplace("%zz", BadDocuments),
     SettingsGetDistinctAttribute("movies"),
     NoAcceptedStatusCodes(SettingsGetDistinctAttribute("movies"), TRUE),
     NoAcceptedStatusCodes(SettingsGetDistinctAttribute("movies"), FALSE),
     IndexesGet("movies"), IndexesCreate(CreateIndexRequest)}

NoRequest ==
    [endpoint |-> "", method |-> "", withRequest |-> NilValue,
     withResponse |-> NilValue, acceptedNil |-> TRUE,
     acceptedStatusCodes |-> <<>>, functionName |-> "", apiName |-> ""]

(***************************************************************************)
(* url.Parse(c.config.Host + req.endpoint): a percent sign that is not     *)
(* followed by two hexadecimal digits is an invalid escape.                *)
(***************************************************************************)
BadEndpoints == {"/indexes/%zz", "/indexes/%zz/updates/1", "/indexes/%zz/documents"}

UrlParses(endpoint) == endpoint \notin BadEndpoints

(***************************************************************************)
(* json.Marshaler of the request payload                                   *)
(***************************************************************************)
MarshalJSON(payload) ==
    IF payload = BadDocuments
    THEN [err |-> TRUE, data |-> ""]
    ELSE [err |-> FALSE, data |-> "[" \o payload \o "]"]

(***************************************************************************)
(* json.Unmarshaler of the response target                                 *)
(***************************************************************************)
IsJSONObject(body) ==
    body \in {ObjBody, EnqueuedBody, ProcessedBody, FailedBody, IndexBody}

StatusField(body) ==
    CASE body = EnqueuedBody -> UpdateStatusEnqueued
      [] body = ProcessedBody -> UpdateStatusProcessed
      [] body = FailedBody -> UpdateStatusFailed
      [] OTHER -> NoStatus

\* Str.UnmarshalJSON copies the bytes and never fails
StrUnmarshalJSON(data, old) == [err |-> FALSE, value |-> data]

\* generated decoder of Update: a JSON object is required, only the status
\* field is kept here
UpdateUnmarshalJSON(data, old) ==
    IF IsJSONObject(data)
    THEN [err |-> FALSE, value |-> StatusField(data)]
    ELSE [err |-> TRUE, value |-> old]

\* generated decoder of AsyncUpdateID: a JSON object is required
AsyncUpdateIDUnmarshalJSON(data, old) ==
    IF IsJSONObject(data)
    THEN [err |-> FALSE, value |-> "updateID"]
    ELSE [err |-> TRUE, value |-> old]

\* StrsArr.UnmarshalJSON: the data must parse as a JSON array; its elements
\* are appended to the target
StrsArrUnmarshalJSON(data, old) ==
    IF data = ArrayBody
    THEN [err |-> FALSE, value |-> old \o "a,"]
    ELSE [err |-> TRUE, value |-> old]

\* generated decoder of Index: a JSON object is required, only the uid
\* field is kept here
IndexUnmarshalJSON(data, old) ==
    IF IsJSONObject(data)
    THEN [err |-> FALSE, value |-> IF data = IndexBody THEN "movies" ELSE "no uid"]
    ELSE [err |-> TRUE, value |-> old]

\* generated decoder of CreateIndexResponse called on a nil pointer: an
\* object without any field of the type is read without a write
NilUnmarshalJSON(data, old) ==
    IF IsJSONObject(data)
    THEN [err |-> FALSE, value |-> old]
    ELSE [err |-> TRUE, value |-> old]

\* the first field of the type found in the object is assigned through the
\* nil pointer
NilDereference(kind, data) == kind = NilCreateIndexResponse /\ data = IndexBody

UnmarshalJSON(kind, data, old) ==
    CASE kind = "Str" -> StrUnmarshalJSON(data, old)
      [] kind = "Index" -> IndexUnmarshalJSON(data, old)
      [] kind = NilCreateIndexResponse -> NilUnmarshalJSON(data, old)
      [] kind = "StrsArr" -> StrsArrUnmarshalJSON(data, old)
      [] kind = "Update" -> UpdateUnmarshalJSON(data, old)
      [] OTHER -> AsyncUpdateIDUnmarshalJSON(data, old)

(***************************************************************************)
(* fasthttp.Response objects and the shared pool                           *)
(***************************************************************************)
ZeroResponse == [statusCode |-> 0, body |-> EmptyBody]

\* Response.StatusCode(): a zero status code reads as 200
StatusCode(r) == IF r.statusCode = 0 THEN StatusOK ELSE r.statusCode

Body(r) == r.body

(***************************************************************************)
(* Structured error                                                        *)
(***************************************************************************)
NewError(d) ==
    [Endpoint |-> d.endpoint,
     Method |-> d.method,
     Function |-> d.functionName,
     APIName |-> d.apiName,
     RequestToString |-> "empty request",
     ResponseToString |-> "empty response",
     MeilisearchMessage |-> "empty meilisearch message",
     StatusCodeExpected |-> d.acceptedStatusCodes,
     StatusCode |-> 0,
     ErrCode |-> ErrCodeUnknown]

WithErrCode(e, code) == [e EXCEPT !.ErrCode = code]

ErrorBody(e, rawBody) ==
    [e EXCEPT !.ResponseToString = rawBody,
              !.MeilisearchMessage = IF IsJSONObject(rawBody) THEN rawBody ELSE @]

Pending == [state |-> "pending", structured |-> FALSE, e |-> NewError(NoRequest)]
ReturnNil == [state |-> "nil", structured |-> FALSE, e |-> NewError(NoRequest)]
ReturnPanic == [state |-> "panic", structured |-> FALSE, e |-> NewError(NoRequest)]
ReturnError(e) == [state |-> "error", structured |-> TRUE, e |-> e]
ReturnWrapped(d) ==
    [state |-> "error", structured |-> FALSE,
     e |-> [NewError(NoRequest) EXCEPT !.ErrCode = UrlParseError]]

NoReply == [done |-> FALSE, statusCode |-> 0, body |-> EmptyBody]
NewTarget == [writes |-> 0, value |-> ""]
NoReturn == [state |-> "pending", status |-> NoStatus, err |-> NilValue]
NoFirst == [value |-> "", reply |-> NoReply]

(***************************************************************************)
(* Config of the client and the outgoing *fasthttp.Request                 *)
(***************************************************************************)
Host == "http://localhost:7700"

Configs == {[Host |-> Host, APIKey |-> ""], [Host |-> Host, APIKey |-> "masterKey"]}

NoHTTPRequest == [uri |-> "", method |-> "", body |-> "", headers |-> {}]

\* the API key header is sent with every request, set or not
RequestHeadersAlwaysKey(cfg) ==
    {<<"Content-Type", "application/json">>, <<"X-Meili-API-Key", cfg.APIKey>>}

\* sendRequest, lines 163-167
RequestHeaders(cfg) ==
    {<<"Content-Type", "application/json">>}
        \cup (IF cfg.APIKey # "" THEN {<<"X-Meili-API-Key", cfg.APIKey>>} ELSE {})

VARIABLES
    pc,             \* position of the call inside executeRequest
    req,            \* the descriptor of the call
    ierr,           \* internalError of the call
    ret,            \* what executeRequest returned
    target,         \* the response target: decoder invocations and value
    transportCalls, \* invocations of httpClient.Do in the call
    reply,          \* what the Transport returned for the call
    response,       \* content of the *fasthttp.Response of the call
    holder,         \* who owns that object: "none", "call", "pool", "other"
    other,          \* the other goroutine that owns it when holder = "other"
    wpc,            \* position inside WaitForPendingUpdate
    indexID,        \* the indexID argument of WaitForPendingUpdate
    ctxDone,        \* ctx.Err() != nil
    entryDone,      \* ctx was done when WaitForPendingUpdate was entered
    polls,          \* apiUpdates.Get calls of the wait
    sleeps,         \* time.Sleep(interval) calls of the wait
    enqueuedReplies,\* polls of the wait the server answered 200 enqueued
    wret,           \* what WaitForPendingUpdate returned
    latePolls,      \* polls of the wait issued after the context was done
    now,            \* milliseconds since WaitForPendingUpdate was entered
    config,         \* the Config of the client
    request,        \* the request handed to httpClient.Do
    round,          \* 1, 2: first and second call with the same target
    first           \* the target after the first of the two calls

cvars == <<pc, req, ierr, ret, target, transportCalls, reply, request>>
svars == <<now, config, round, first>>
rvars == <<response, holder, other>>
wvars == <<wpc, indexID, ctxDone, entryDone, latePolls, polls, sleeps,
           enqueuedReplies, wret>>
vars == <<pc, req, ierr, ret, target, transportCalls, reply, request, now,
          config, round, first, response, holder, other, wpc, indexID,
          ctxDone, entryDone, latePolls, polls, sleeps, enqueuedReplies, wret>>

(***************************************************************************)
(* Initial state: no call running                                          *)
(***************************************************************************)
InitCall ==
    /\ pc = "idle"
    /\ req = NoRequest
    /\ ierr = NewError(NoRequest)
    /\ ret = Pending
    /\ target = NewTarget
    /\ transportCalls = 0
    /\ reply = NoReply
    /\ response = ZeroResponse
    /\ holder = "none"
    /\ other = NoOther
    /\ request = NoHTTPRequest
    /\ now = 0
    /\ round = 0
    /\ first = NoFirst

NoWait ==
    /\ wpc = "none"
    /\ indexID = ""
    /\ ctxDone = FALSE
    /\ entryDone = FALSE
    /\ polls = 0
    /\ sleeps = 0
    /\ enqueuedReplies = 0
    /\ wret = NoReturn
    /\ latePolls = 0

Init == InitCall /\ NoWait /\ config \in Configs

(***************************************************************************)
(* fasthttp.AcquireResponse hands out a pooled (reset) or a new object;    *)
(* fasthttp.ReleaseResponse calls Reset() on the object and puts it into   *)
(* the pool                                                                *)
(***************************************************************************)
ResetResponse(r) == ZeroResponse

AcquireResponse(who, g) ==
    /\ response' = ZeroResponse
    /\ holder' = who
    /\ other' = g

ReleaseResponse ==
    /\ response' = ResetResponse(response)
    /\ holder' = "pool"
    /\ other' = NoOther

\* executeRequest returns: the call has no response pointer any more
DropResponse ==
    /\ response' = ZeroResponse
    /\ holder' = "none"
    /\ other' = NoOther

(***************************************************************************)
(* executeRequest, lines 83-94: the call starts with a fresh internalError *)
(***************************************************************************)
BeginRequest(d) ==
    /\ pc' = "send"
    /\ req' = d
    /\ ierr' = NewError(d)
    /\ ret' = Pending
    /\ target' = NewTarget
    /\ transportCalls' = 0
    /\ reply' = NoReply
    /\ request' = NoHTTPRequest
    /\ UNCHANGED rvars

executeRequest ==
    /\ pc = "idle"
    /\ wpc = "none"
    /\ \E d \in Descriptors : BeginRequest(d)
    /\ UNCHANGED <<wvars, svars>>

(***************************************************************************)
(* sendRequest, lines 118-167: URL, acquisition of the pooled objects,     *)
(* serialization of the payload.  When the serialization fails the object  *)
(* acquired at line 142 goes straight back to the pool by the deferred     *)
(* release and executeRequest returns at line 97 without a pointer to it.  *)
(***************************************************************************)
\* the error of MarshalJSON is not looked at
MarshalErrorIgnored(d) == FALSE

\* line 157: err != nil after rawJSONRequest.MarshalJSON()
MarshalFails(d) == d.withRequest # NilValue /\ MarshalJSON(d.withRequest).err

RequestText(d, old) ==
    IF d.withRequest # NilValue THEN MarshalJSON(d.withRequest).data ELSE old

\* lines 146-167: URI, method, body and headers of the outgoing request
NewHTTPRequest(cfg, d) ==
    [uri |-> cfg.Host \o d.endpoint,
     method |-> d.method,
     body |-> RequestText(d, ""),
     headers |-> RequestHeaders(cfg)]

sendRequest ==
    /\ pc = "send"
    /\ IF ~UrlParses(req.endpoint)
       THEN /\ ret' = ReturnWrapped(req)
            /\ pc' = "done"
            /\ UNCHANGED <<ierr, request, rvars>>
       ELSE /\ ierr' = [ierr EXCEPT !.RequestToString = RequestText(req, @)]
            /\ IF MarshalFails(req)
               THEN /\ ret' = ReturnError(WithErrCode(ierr', ErrCodeMarshalRequest))
                    /\ pc' = "done"
                    /\ DropResponse
                    /\ UNCHANGED request
               ELSE /\ pc' = "do"
                    /\ AcquireResponse("call", NoOther)
                    /\ request' = NewHTTPRequest(config, req)
                    /\ UNCHANGED ret
    /\ UNCHANGED <<req, target, transportCalls, reply>>
    /\ UNCHANGED <<wvars, svars>>

(***************************************************************************)
(* sendRequest, lines 169-175: c.httpClient.Do(request, response)          *)
(***************************************************************************)
\* what the server answers while the call runs: the common replies, the
\* accepted status codes of the facade and an index where one is asked for
RepliedStatusCodes(d) ==
    ServerStatusCodes \cup {d.acceptedStatusCodes[i] : i \in 1..Len(d.acceptedStatusCodes)}

RepliedBodies(d) ==
    ServerBodies
        \cup (IF d.withResponse \in {"Index", NilCreateIndexResponse}
              THEN {IndexBody} ELSE {})

IsEnqueuedReply(s, b) == s = StatusOK /\ b = EnqueuedBody

\* a failed round trip is tried again
DoRetrying ==
    /\ pc = "do"
    /\ transportCalls' = transportCalls + 1
    /\ \/ UNCHANGED <<pc, ret, reply, enqueuedReplies, rvars>>
       \/ \E s \in RepliedStatusCodes(req), b \in RepliedBodies(req) :
          /\ response' = [statusCode |-> s, body |-> b]
          /\ reply' = [done |-> TRUE, statusCode |-> s, body |-> b]
          /\ pc' = "sent"
          /\ enqueuedReplies' =
                 IF wpc # "none" /\ IsEnqueuedReply(s, b)
                 THEN enqueuedReplies + 1 ELSE enqueuedReplies
          /\ UNCHANGED <<ret, holder, other>>
    /\ UNCHANGED <<req, request, ierr, target>>
    /\ UNCHANGED <<wpc, indexID, ctxDone, entryDone, latePolls, polls, sleeps, wret, svars>>

Do ==
    /\ pc = "do"
    /\ transportCalls' = transportCalls + 1
    /\ \/ /\ ret' = ReturnError(WithErrCode(ierr, ErrCodeRequestExecution))
          /\ pc' = "done"
          /\ DropResponse
          /\ UNCHANGED <<reply, enqueuedReplies>>
       \/ \E s \in RepliedStatusCodes(req), b \in RepliedBodies(req) :
          /\ response' = [statusCode |-> s, body |-> b]
          /\ reply' = [done |-> TRUE, statusCode |-> s, body |-> b]
          /\ pc' = "sent"
          /\ enqueuedReplies' =
                 IF wpc # "none" /\ IsEnqueuedReply(s, b)
                 THEN enqueuedReplies + 1 ELSE enqueuedReplies
          /\ UNCHANGED <<ret, holder, other>>
    /\ UNCHANGED <<req, request, ierr, target>>
    /\ UNCHANGED <<wpc, indexID, ctxDone, entryDone, latePolls, polls, sleeps, wret, svars>>

(***************************************************************************)
(* sendRequest, lines 143-144 and 177: the deferred releases run when      *)
(* sendRequest returns the response pointer                                *)
(***************************************************************************)
sendRequestReturn ==
    /\ pc = "sent"
    /\ ReleaseResponse
    /\ pc' = "status"
    /\ UNCHANGED <<req, request, ierr, ret, target, transportCalls, reply>>
    /\ UNCHANGED <<wvars, svars>>

(***************************************************************************)
(* executeRequest, lines 99-102                                            *)
(***************************************************************************)
recordStatusCode ==
    /\ pc = "status"
    /\ ierr' = [ierr EXCEPT !.StatusCode = StatusCode(response)]
    /\ pc' = "classify"
    /\ UNCHANGED <<req, request, ret, target, transportCalls, reply, rvars>>
    /\ UNCHANGED <<wvars, svars>>

(***************************************************************************)
(* handleStatusCode, lines 180-200                                         *)
(***************************************************************************)
InCodes(code, codes) == \E i \in 1..Len(codes) : codes[i] = code

StatusAcceptedBy(d, code) == d.acceptedNil \/ InCodes(code, d.acceptedStatusCodes)

handleStatusCode ==
    /\ pc = "classify"
    /\ IF StatusAcceptedBy(req, StatusCode(response))
       THEN /\ pc' = "decode"
            /\ UNCHANGED <<ierr, ret, rvars>>
       ELSE /\ ierr' = ErrorBody(ierr, Body(response))
            /\ ret' = ReturnError(WithErrCode(ierr', ErrCodeResponseStatusCode))
            /\ pc' = "done"
            /\ DropResponse
    /\ UNCHANGED <<req, request, target, transportCalls, reply>>
    /\ UNCHANGED <<wvars, svars>>

(***************************************************************************)
(* handleResponse, lines 202-213                                           *)
(***************************************************************************)
Decoded(d, rawBody, old) == UnmarshalJSON(d.withResponse, rawBody, old)

handleResponse ==
    /\ pc = "decode"
    /\ IF req.withResponse # NilValue
       THEN /\ ierr' = [ierr EXCEPT !.ResponseToString = Body(response)]
            /\ IF NilDereference(req.withResponse, Body(response))
               THEN /\ ret' = ReturnPanic
                    /\ UNCHANGED target
               ELSE /\ target' =
                           [writes |-> target.writes + 1,
                            value |-> Decoded(req, Body(response), target.value).value]
                    /\ ret' =
                           IF Decoded(req, Body(response), target.value).err
                           THEN ReturnError(WithErrCode(ierr', ErrCodeResponseUnmarshalBody))
                           ELSE ReturnNil
       ELSE /\ ret' = ReturnNil
            /\ UNCHANGED <<ierr, target>>
    /\ pc' = "done"
    /\ DropResponse
    /\ UNCHANGED <<req, request, transportCalls, reply>>
    /\ UNCHANGED <<wvars, svars>>

(***************************************************************************)
(* the facade returns to its caller: the descriptor, the target and the    *)
(* response pointer go out of scope                                        *)
(***************************************************************************)
EndCall ==
    /\ pc' = "idle"
    /\ req' = NoRequest
    /\ ierr' = NewError(NoRequest)
    /\ ret' = Pending
    /\ target' = NewTarget
    /\ transportCalls' = 0
    /\ reply' = NoReply
    /\ request' = NoHTTPRequest
    /\ DropResponse

facadeReturn ==
    /\ pc = "done"
    /\ wpc = "none"
    /\ EndCall
    /\ UNCHANGED <<wvars, svars>>

(***************************************************************************)
(* sendRequest of a call of another goroutine that gets the released       *)
(* object from the pool (line 142), receives into it (line 170) and        *)
(* releases it (line 144)                                                  *)
(***************************************************************************)
otherAcquire(g) ==
    /\ holder = "pool"
    /\ AcquireResponse("other", g)
    /\ UNCHANGED <<cvars, wvars, svars>>

otherDo(g) ==
    /\ holder = "other" /\ other = g
    /\ response = ZeroResponse
    /\ \E s \in RepliedStatusCodes(req), b \in RepliedBodies(req) :
       response' = [statusCode |-> s, body |-> b]
    /\ UNCHANGED <<cvars, wvars, svars, holder, other>>

otherRelease(g) ==
    /\ holder = "other" /\ other = g
    /\ ReleaseResponse
    /\ UNCHANGED <<cvars, wvars, svars>>

Next ==
    \/ executeRequest
    \/ sendRequest
    \/ Do
    \/ sendRequestReturn
    \/ recordStatusCode
    \/ handleStatusCode
    \/ handleResponse
    \/ facadeReturn
    \/ \E g \in Others : otherAcquire(g)
    \/ \E g \in Others : otherDo(g)
    \/ \E g \in Others : otherRelease(g)

Spec == Init /\ [][Next]_vars


(***************************************************************************)
(* The same facade called twice with the same target: fastClientDocuments  *)
(* .Get(identifier, documentPtr) with documentPtr a *StrsArr or a *Str     *)
(***************************************************************************)
TwiceDescriptors ==
    {DocumentsGet("movies", "1", "StrsArr"), DocumentsGet("movies", "1", "Str")}

InitTwice == InitCall /\ NoWait /\ config = [Host |-> Host, APIKey |-> "masterKey"]

firstRequest ==
    /\ pc = "idle"
    /\ round = 0
    /\ \E d \in TwiceDescriptors : BeginRequest(d)
    /\ round' = 1
    /\ UNCHANGED <<wvars, now, config, first>>

\* the call returned nil for a reply with an accepted status and decoded
\* the body of that reply
DecodedOwnReply ==
    /\ pc = "done"
    /\ ret.state = "nil"
    /\ reply.done
    /\ StatusAcceptedBy(req, reply.statusCode)
    /\ ierr.ResponseToString = reply.body

\* the first call has succeeded; the caller calls again with the same
\* descriptor and the same target
secondRequest ==
    /\ DecodedOwnReply
    /\ round = 1
    /\ first' = [value |-> target.value, reply |-> reply]
    /\ round' = 2
    /\ pc' = "send"
    /\ ierr' = NewError(req)
    /\ ret' = Pending
    /\ transportCalls' = 0
    /\ reply' = NoReply
    /\ request' = NoHTTPRequest
    /\ UNCHANGED <<req, target, rvars, wvars, now, config>>

twiceReturn ==
    /\ pc = "done"
    /\ round = 2 \/ ~DecodedOwnReply
    /\ EndCall
    /\ round' = 0
    /\ first' = NoFirst
    /\ UNCHANGED <<wvars, now, config>>

NextTwice ==
    \/ firstRequest
    \/ sendRequest
    \/ Do
    \/ sendRequestReturn
    \/ recordStatusCode
    \/ handleStatusCode
    \/ handleResponse
    \/ secondRequest
    \/ twiceReturn
    \/ \E g \in Others : otherAcquire(g)
    \/ \E g \in Others : otherDo(g)
    \/ \E g \in Others : otherRelease(g)

SpecTwice == InitTwice /\ [][NextTwice]_vars

(***************************************************************************)
(* WaitForPendingUpdate, lines 226-246                                     *)
(***************************************************************************)
ContextError == "context error"

\* the call is entered with a context that may already be done
InitWait ==
    /\ InitCall
    /\ wpc = "check"
    /\ indexID \in IndexUIDs
    /\ ctxDone \in BOOLEAN
    /\ entryDone = ctxDone
    /\ polls = 0
    /\ sleeps = 0
    /\ enqueuedReplies = 0
    /\ wret = NoReturn
    /\ latePolls = 0
    /\ config = [Host |-> Host, APIKey |-> "masterKey"]

\* the deadline passes or the caller cancels the context
ctxCancel ==
    /\ wpc \notin {"none", "returned"}
    /\ ~ctxDone
    /\ ctxDone' = TRUE
    /\ UNCHANGED <<cvars, rvars, svars, wpc, indexID, entryDone, latePolls, polls,
                   sleeps, enqueuedReplies, wret>>

\* the context is never looked at
CtxErrIgnored(done) == NilValue

\* ctx.Err()
CtxErr(done) == IF done THEN ContextError ELSE NilValue

\* lines 234-236
CheckContext ==
    /\ IF CtxErr(ctxDone) # NilValue
       THEN /\ wret' = [state |-> "returned", status |-> NoStatus,
                        err |-> CtxErr(ctxDone)]
            /\ wpc' = "returned"
       ELSE /\ wpc' = "get"
            /\ UNCHANGED wret
    /\ UNCHANGED <<cvars, rvars, svars, indexID, ctxDone, entryDone, latePolls, polls,
                   sleeps, enqueuedReplies>>

\* the number of iterations that go on to poll is bounded
waitCheck ==
    /\ wpc = "check"
    /\ CtxErr(ctxDone) # NilValue \/ polls < MaxPolls
    /\ CheckContext

\* line 237 and fastClientUpdates.Get, lines 17-30: the poll is issued
waitGet ==
    /\ wpc = "get"
    /\ pc = "idle"
    /\ polls' = polls + 1
    /\ latePolls' = IF ctxDone THEN latePolls + 1 ELSE latePolls
    /\ BeginRequest(UpdatesGet(indexID))
    /\ wpc' = "fetch"
    /\ UNCHANGED <<svars, indexID, ctxDone, entryDone, sleeps,
                   enqueuedReplies, wret>>

\* fastClientUpdates.Get, lines 30-34: (nil, err) or (resp, nil)
GetFailed(r) == r.state = "error"

\* a failed fetch is polled again
PollOutcomeRetry(failed, status) ==
    IF ~failed /\ status # UpdateStatusEnqueued
    THEN [return |-> TRUE, status |-> status]
    ELSE [return |-> FALSE, status |-> NoStatus]

\* every fetched status ends the wait
PollOutcomeAny(failed, status) ==
    IF failed
    THEN [return |-> TRUE, status |-> UpdateStatusUnknown]
    ELSE [return |-> TRUE, status |-> status]

\* lines 238-244: what the loop does with the result of the poll
PollOutcome(failed, status) ==
    IF failed
    THEN [return |-> TRUE, status |-> UpdateStatusUnknown]
    ELSE IF status # UpdateStatusEnqueued
         THEN [return |-> TRUE, status |-> status]
         ELSE [return |-> FALSE, status |-> NoStatus]

waitFetched ==
    /\ wpc = "fetch"
    /\ pc = "done"
    /\ IF PollOutcome(GetFailed(ret), target.value).return
       THEN /\ wret' = [state |-> "returned",
                        status |-> PollOutcome(GetFailed(ret), target.value).status,
                        err |-> NilValue]
            /\ wpc' = "returned"
            /\ DropResponse
            /\ UNCHANGED cvars
       ELSE /\ wpc' = "sleep"
            /\ EndCall
            /\ UNCHANGED wret
    /\ UNCHANGED <<svars, indexID, ctxDone, entryDone, latePolls, polls, sleeps,
                   enqueuedReplies>>

\* line 244: time.Sleep(interval) takes interval milliseconds
Sleep(interval) ==
    /\ sleeps' = sleeps + 1
    /\ now' = now + interval
    /\ wpc' = "check"
    /\ UNCHANGED <<cvars, rvars, config, round, first, indexID, ctxDone,
                   entryDone, latePolls, polls, enqueuedReplies, wret>>

\* the wait without a clock: the interval is not looked at
waitSleep == wpc = "sleep" /\ Sleep(0)

NextWait ==
    \/ ctxCancel
    \/ waitCheck
    \/ waitGet
    \/ waitFetched
    \/ waitSleep
    \/ sendRequest
    \/ Do
    \/ sendRequestReturn
    \/ recordStatusCode
    \/ handleStatusCode
    \/ handleResponse
    \/ \E g \in Others : otherAcquire(g)
    \/ \E g \in Others : otherDo(g)
    \/ \E g \in Others : otherRelease(g)

SpecWait == InitWait /\ [][NextWait]_vars

(***************************************************************************)
(* WaitForPendingUpdate with a clock: the context carries a deadline, the  *)
(* interval is the one of line 219 and the deadline is three intervals     *)
(* (150 ms).  Only time.Sleep takes time; the deadline timer may fire as   *)
(* soon as the deadline is reached and has fired once it is passed.        *)
(***************************************************************************)
PollInterval == 50

Deadline == 3 * PollInterval

\* polls that can begin before the deadline has passed
TimedPolls == Deadline \div PollInterval + 1

InitTimed ==
    /\ InitCall
    /\ wpc = "check"
    /\ indexID = "movies"
    /\ ctxDone = FALSE
    /\ entryDone = FALSE
    /\ polls = 0
    /\ sleeps = 0
    /\ enqueuedReplies = 0
    /\ wret = NoReturn
    /\ latePolls = 0
    /\ config = [Host |-> Host, APIKey |-> "masterKey"]

deadlineFires == now >= Deadline /\ ctxCancel

waitCheckTimed ==
    /\ wpc = "check"
    /\ now > Deadline => ctxDone
    /\ CheckContext

waitSleepTimed == wpc = "sleep" /\ Sleep(PollInterval)

NextTimed ==
    \/ deadlineFires
    \/ waitCheckTimed
    \/ waitGet
    \/ waitFetched
    \/ waitSleepTimed
    \/ sendRequest
    \/ Do
    \/ sendRequestReturn
    \/ recordStatusCode
    \/ handleStatusCode
    \/ handleResponse
    \/ \E g \in Others : otherAcquire(g)
    \/ \E g \in Others : otherDo(g)
    \/ \E g \in Others : otherRelease(g)

SpecTimed == InitTimed /\ [][NextTimed]_vars

(***************************************************************************)
(* The goroutine that runs WaitForPendingUpdate is scheduled, time.Sleep   *)
(* wakes up and httpClient.Do returns: every step of the wait that can be  *)
(* taken is taken eventually.  Nothing is assumed of the context and of    *)
(* the other goroutines.                                                   *)
(***************************************************************************)
WaitProgress ==
    /\ WF_vars(waitCheck)
    /\ WF_vars(waitGet)
    /\ WF_vars(waitFetched)
    /\ WF_vars(waitSleep)
    /\ WF_vars(sendRequest)
    /\ WF_vars(Do)
    /\ WF_vars(sendRequestReturn)
    /\ WF_vars(recordStatusCode)
    /\ WF_vars(handleStatusCode)
    /\ WF_vars(handleResponse)

SpecWaitFair == InitWait /\ [][NextWait]_vars /\ WaitProgress


(***************************************************************************)
(* Properties of executeRequest                                            *)
(***************************************************************************)
AcceptedListed == ~req.acceptedNil /\ Len(req.acceptedStatusCodes) > 0

PayloadUnserializable == req.withRequest # NilValue /\ MarshalJSON(req.withRequest).err

\* C1: when the accepted-status set of the descriptor is non-empty and the
\* status code the Transport returned is not in it, executeRequest returns
\* an ErrCodeResponseStatusCode error, whatever the body.
C1_UnexpectedStatusIsError ==
    (pc = "done" /\ reply.done /\ AcceptedListed
        /\ ~InCodes(reply.statusCode, req.acceptedStatusCodes))
    => (ret.state = "error" /\ ret.structured
        /\ ret.e.ErrCode = ErrCodeResponseStatusCode)

\* C2: the response target is written to if and only if the URL was built,
\* the payload serialized, the Transport call returned and the status code
\* it returned was accepted.
C2_TargetWrittenIffDecodeStage ==
    (pc = "done" /\ req.withResponse # NilValue)
    => ((target.writes > 0)
        <=> (UrlParses(req.endpoint) /\ ~PayloadUnserializable /\ reply.done
             /\ StatusAcceptedBy(req, reply.statusCode)))

\* C3: when the payload of the descriptor cannot be serialized the call
\* never invokes the Transport and returns an ErrCodeMarshalRequest error.
C3_SerializationFailureNoTransport ==
    (UrlParses(req.endpoint) /\ PayloadUnserializable)
    => (/\ transportCalls = 0
        /\ ~reply.done
        /\ pc \in {"send", "done"}
        /\ pc = "done" => (ret.state = "error" /\ ret.structured
                           /\ ret.e.ErrCode = ErrCodeMarshalRequest))

C3_Witness ==
    pc = "done" /\ PayloadUnserializable /\ UrlParses(req.endpoint)
    /\ ret.state = "error" /\ ret.e.ErrCode = ErrCodeMarshalRequest
    /\ ret.e.Function = "AddOrReplace"

\* C4: a descriptor without response target succeeds exactly when the
\* status code the Transport returned is accepted, whatever the body; so
\* Indexes.Delete succeeds exactly when the status is 204.
C4_NoTargetAcceptedSucceeds ==
    (pc = "done" /\ req.withResponse = NilValue /\ reply.done)
    => (ret.state = "nil" <=> StatusAcceptedBy(req, reply.statusCode))

\* C5: a structured error returned after a completed round trip carries the
\* endpoint, method, operation, resource and expected status codes of the
\* descriptor and the status code the Transport returned for the call.
C5_ErrorCarriesObservedStatus ==
    (pc = "done" /\ ret.state = "error" /\ ret.structured /\ reply.done)
    => (/\ ret.e.Endpoint = req.endpoint
        /\ ret.e.Method = req.method
        /\ ret.e.Function = req.functionName
        /\ ret.e.APIName = req.apiName
        /\ ret.e.StatusCodeExpected = req.acceptedStatusCodes
        /\ ret.e.StatusCode = reply.statusCode)

\* C6: a call invokes the Transport at most once, and a failed invocation
\* makes it return an ErrCodeRequestExecution error.
C6_TransportFailureNoRetry ==
    /\ transportCalls <= 1
    /\ (pc = "done" /\ transportCalls = 1 /\ ~reply.done)
       => (ret.state = "error" /\ ret.structured
           /\ ret.e.ErrCode = ErrCodeRequestExecution)
    /\ (pc \notin {"idle", "send", "do"} /\ ret.state = "pending")
       => (transportCalls = 1 /\ reply.done)

C6_Witness ==
    pc = "done" /\ transportCalls = 1 /\ ~reply.done
    /\ ret.state = "error" /\ ret.e.ErrCode = ErrCodeRequestExecution

(***************************************************************************)
(* Properties of WaitForPendingUpdate                                      *)
(***************************************************************************)
Returned(status, err) == [state |-> "returned", status |-> status, err |-> err]

\* C7: entered with a context that is already done, the wait returns the
\* empty status and the context error without any poll, Transport
\* invocation or sleep.
C7_DoneAtEntryReturnsAtOnce ==
    entryDone
    => (/\ polls = 0
        /\ sleeps = 0
        /\ transportCalls = 0
        /\ pc = "idle"
        /\ wpc \in {"check", "returned"}
        /\ wpc = "returned" => wret = Returned(NoStatus, ContextError))

C7_Witness == entryDone /\ wpc = "returned" /\ polls = 0

\* C8: when the server answered enqueued to all polls but the last, a
\* terminal status s to the last one, and the context is not done, the wait
\* returns (s, nil) and has slept once per enqueued answer.
C8_ReturnsFirstTerminalStatus ==
    (wpc = "returned" /\ ~ctxDone /\ reply.done
        /\ reply.statusCode = StatusOK
        /\ reply.body \in {ProcessedBody, FailedBody}
        /\ enqueuedReplies = polls - 1)
    => (wret = Returned(StatusField(reply.body), NilValue)
        /\ sleeps = polls - 1)

\* C9: a poll whose fetch failed ends the wait with (unknown, nil): it is
\* not polled again, no sleep follows, and nothing is polled after the
\* return.
C9_FetchFailureEndsWait ==
    [][/\ (wpc = "fetch" /\ pc = "done" /\ ret.state = "error" /\ wpc' # wpc)
          => (wpc' = "returned"
              /\ wret' = Returned(UpdateStatusUnknown, NilValue)
              /\ polls' = polls /\ sleeps' = sleeps)
       /\ wpc = "returned"
          => (wpc' = "returned" /\ polls' = polls /\ wret' = wret)]_vars

C9_Witness ==
    wpc = "returned" /\ pc = "done" /\ ret.state = "error"
    /\ wret = Returned(UpdateStatusUnknown, NilValue) /\ polls >= 1

\* C10: the wait returns either the empty status with the context error,
\* and then the context was done at the start of an iteration, or a status
\* other than enqueued with a nil error; a failed fetch never gives an
\* error.
C10_ReturnShapes ==
    wpc = "returned"
    => (/\ \/ (wret = Returned(NoStatus, ContextError) /\ ctxDone /\ pc = "idle"
               /\ sleeps = polls)
           \/ (wret.err = NilValue /\ wret.status # UpdateStatusEnqueued
               /\ pc = "done")
        /\ ret.state = "error" => wret.err = NilValue)

C10_Witness ==
    wpc = "returned" /\ wret.err = ContextError /\ polls >= 1 /\ ~entryDone


\* C11: once the context is done the wait returns, whatever the status
\* endpoint answers.
C11_ReturnsOnceContextDone == ctxDone ~> (wpc = "returned")

C11_Witness ==
    wpc = "returned" /\ wret.err = ContextError /\ sleeps = MaxPolls

\* C12 as stated: after the context is done WaitForPendingUpdate starts no
\* new poll.
C12_NoPollAfterSignal == latePolls = 0

\* C12: after the context is done at most one new poll is started, the one
\* whose ctx.Err() check of line 234 came before the signal; a check that
\* sees the signal ends the wait without a poll.
C12_AtMostOnePollAfterSignal ==
    /\ latePolls <= 1
    /\ wpc = "returned" /\ wret.err = ContextError => pc = "idle"

C12_Witness ==
    wpc = "returned" /\ wret.err = ContextError /\ latePolls = 1 /\ sleeps = 1

\* C13: with a deadline of 150 ms, an interval of 50 ms and a status endpoint
\* that answers enqueued to every poll, the wait returns the empty status with
\* the context error after 3 or 4 polls.
C13_DeadlineScenario ==
    wpc = "returned" /\ enqueuedReplies = polls
        => /\ wret = Returned(NoStatus, ContextError)
           /\ polls \in {TimedPolls - 1, TimedPolls}

\* the status code the call has recorded is neither the one the Transport
\* returned to it nor the one of an emptied response
ForeignStatusRead ==
    /\ pc \in {"classify", "decode", "done"}
    /\ reply.done
    /\ ierr.StatusCode \notin {reply.statusCode, StatusCode(ZeroResponse)}

\* the value decoded into the target comes neither from the body the
\* Transport returned to the call nor from an emptied response
ForeignBodyDecoded ==
    /\ pc = "done"
    /\ reply.done
    /\ target.writes > 0
    /\ target.value \notin {Decoded(req, reply.body, NewTarget.value).value,
                             Decoded(req, EmptyBody, NewTarget.value).value}

\* C14: a call never classifies the status code or decodes the body that the
\* Transport returned to another call running concurrently on the same
\* client.
C14_CallsSelfContained == ~ForeignStatusRead /\ ~ForeignBodyDecoded

\* C15: two calls with the same descriptor and the same target that get the
\* same reply and both succeed leave equal decoded results in the target
\* after the first and after the second call.
C15_RepeatedDispatchEqualResults ==
    round = 2 /\ DecodedOwnReply /\ reply = first.reply
        => target.value = first.value

HasHeader(r, name) == \E h \in r.headers : h[1] = name

\* C17: a request handed to the Transport with a body carries Content-Type:
\* application/json, and it carries X-Meili-API-Key exactly when the
\* configured API key is not empty, with the key as its value.
C17_RequestHeaders ==
    transportCalls > 0
        => /\ request.body # "" => <<"Content-Type", "application/json">> \in request.headers
           /\ HasHeader(request, "X-Meili-API-Key") <=> config.APIKey # ""
           /\ \A h \in request.headers :
                  h[1] = "X-Meili-API-Key" => h[2] = config.APIKey

C17_Witness ==
    /\ transportCalls > 0
    /\ request.body # ""
    /\ <<"X-Meili-API-Key", "masterKey">> \in request.headers

StageOutcome(d, r) ==
    IF ~UrlParses(d.endpoint) THEN UrlParseError
    ELSE IF MarshalFails(d) THEN ErrCodeMarshalRequest
    ELSE IF ~r.done THEN ErrCodeRequestExecution
    ELSE IF ~StatusAcceptedBy(d, r.statusCode) THEN ErrCodeResponseStatusCode
    ELSE IF d.withResponse # NilValue /\ Decoded(d, r.body, NewTarget.value).err
         THEN ErrCodeResponseUnmarshalBody
    ELSE NilValue

ReturnedOutcome(r) == IF r.state = "nil" THEN NilValue ELSE r.e.ErrCode

\* C19: executeRequest returns nil exactly when every stage succeeded on what
\* the Transport returned, and otherwise the error of the first failing stage
\* in the order URL, serialization, transport, status classification,
\* decoding.
C19_NoFailureDropped ==
    pc = "done" => ReturnedOutcome(ret) = StageOutcome(req, reply)

\* C20: when the URL of host and endpoint does not parse, executeRequest
\* fails with a structured error that carries the endpoint, method, function
\* and API name of the descriptor, and the Transport is not invoked.
C20_UrlFailureStructured ==
    pc = "done" /\ ~UrlParses(req.endpoint)
        => /\ ret.state = "error"
           /\ ret.structured
           /\ ret.e.Endpoint = req.endpoint
           /\ ret.e.Method = req.method
           /\ ret.e.Function = req.functionName
           /\ ret.e.APIName = req.apiName
           /\ transportCalls = 0

\* the next step of the call reads the status code or the body of its
\* response: lines 100 and 186 always, line 206 when there is a target
ReadsResponseNext ==
    \/ pc \in {"status", "classify"}
    \/ pc = "decode" /\ req.withResponse # NilValue

\* C21: whenever the call reads the status code or the body of its response
\* the response has not been released yet, it still belongs to the call.
C21_NoReadAfterRelease == ReadsResponseNext => holder = "call"

\* the facades that return (resp, err)
FacadeReturnsResponse(d) ==
    <<d.apiName, d.functionName>> \in
        {<<"Updates", "Get">>, <<"Indexes", "Get">>, <<"Indexes", "Create">>,
         <<"Documents", "AddOrReplace">>, <<"Settings", "GetDistinctAttribute">>}

\* return nil, err or return resp, nil: resp is the pointer the facade gave
\* as withResponse
FacadeReturn(d, r) ==
    IF r.state = "nil"
    THEN [resp |-> IF d.withResponse = NilCreateIndexResponse
                   THEN NilValue ELSE "&" \o d.withResponse,
          err |-> NilValue]
    ELSE [resp |-> NilValue, err |-> "error"]

\* C22: a facade that returns a response with an error returns, when
\* executeRequest is over, a non-nil response that the decoder has written
\* when the error is nil and a nil response when the error is not nil.
C22_ResponseIffNoError ==
    pc = "done" /\ FacadeReturnsResponse(req)
        => /\ ret.state # "panic"
           /\ FacadeReturn(req, ret).err = NilValue
                  => FacadeReturn(req, ret).resp # NilValue /\ target.writes > 0
           /\ FacadeReturn(req, ret).err # NilValue
                  => FacadeReturn(req, ret).resp = NilValue

====
